---- MODULE Spec2Model ----
(***************************************************************************)
(* Session lifecycle and effective-time accounting of the time-tracking    *)
(* bot (app/session.py, app/allocation.py, app/models.py).                 *)
(*                                                                         *)
(* Timestamps are clock ticks; TicksPerSecond ticks make one second, so    *)
(* the int(timedelta.total_seconds()) conversions of the code truncate.    *)
(***************************************************************************)
EXTENDS Integers, Sequences, FiniteSets, TLC

VARIABLES
    users,      \* rows of table users: the set of user ids
    subjects,   \* rows of table subjects, in insertion order; id = index
    sessions,   \* rows of table sessions, in insertion order; id = index
    now,        \* the wall clock, in ticks
    req,        \* the requests in flight (interleaved requests only)
    scope,      \* the inputs and caps this behaviour draws from; never changes
    allocations, \* rows of table weekly_allocations, in insertion order
    calc        \* a call of parse_duration or format_duration on its own

vars == <<users, subjects, sessions, now, req, scope, allocations, calc>>

-----------------------------------------------------------------------------
(* Bounds of the model *)

MaxTime == 3
TicksPerSecond == 2
MaxSessions == 2
MaxTextLen == 3

Users == {"A", "B"}
SubjectNames == {"Math", "Art"}
Procs == {"r1", "r2"}

-----------------------------------------------------------------------------
(* Nullable columns and optional arguments *)

None == -1
NoText == "<None>"
NoSession == 0

ClockInGoals == {NoText, "g"}
GoalTexts == {"", "g"}
Notes == {NoText, "", "n"}

Statuses == {"RUNNING", "PAUSED", "ENDED_UNCONFIRMED", "ENDED_CONFIRMED"}
ActiveStatuses == {"RUNNING", "PAUSED"}

Int32Max == 2147483647

SessionIds == 1..MaxSessions

\* int(x) of Python for the quotient n/d, d > 0: truncation toward zero
TruncDiv(n, d) == IF n >= 0 THEN n \div d ELSE -((-n) \div d)

\* int((t2 - t1).total_seconds())
Seconds(ticks) == TruncDiv(ticks, TicksPerSecond)

-----------------------------------------------------------------------------
(* Duration texts: sequences of one-character strings *)

Digits == {"0", "1", "2", "3", "4", "5", "6", "7", "8", "9"}

DigitVal(c) ==
    CASE c = "0" -> 0 [] c = "1" -> 1 [] c = "2" -> 2 [] c = "3" -> 3
      [] c = "4" -> 4 [] c = "5" -> 5 [] c = "6" -> 6 [] c = "7" -> 7
      [] c = "8" -> 8 [] c = "9" -> 9

IsSpace(c) == c = " "

\* str.lower() on the alphabet of the model
Lower(c) == CASE c = "H" -> "h" [] c = "M" -> "m" [] c = "S" -> "s" [] OTHER -> c

RECURSIVE LStrip(_)
LStrip(s) == IF s # <<>> /\ IsSpace(Head(s)) THEN LStrip(Tail(s)) ELSE s

RECURSIVE RStrip(_)
RStrip(s) ==
    IF s # <<>> /\ IsSpace(s[Len(s)]) THEN RStrip(SubSeq(s, 1, Len(s) - 1)) ELSE s

Strip(s) == RStrip(LStrip(s))

LowerStr(s) == [i \in 1..Len(s) |-> Lower(s[i])]

\* value of a non-empty run of digits
RECURSIVE DigitsValue(_)
DigitsValue(s) ==
    IF s = <<>> THEN 0
    ELSE DigitsValue(SubSeq(s, 1, Len(s) - 1)) * 10 + DigitVal(s[Len(s)])

AllDigits(s) == \A i \in 1..Len(s) : s[i] \in Digits

RECURSIVE Pow10(_)
Pow10(k) == IF k = 0 THEN 1 ELSE 10 * Pow10(k - 1)

ColonPositions(s) == {i \in 1..Len(s) : s[i] = ":"}

\* int(text) of Python on the alphabet of the model: surrounding whitespace,
\* an optional sign, then one or more digits
IntParse(text) ==
    LET t == Strip(text)
        signed == t # <<>> /\ Head(t) \in {"-", "+"}
        body == IF signed THEN Tail(t) ELSE t
        ok == body # <<>> /\ AllDigits(body)
    IN  [ok |-> ok,
         value |-> IF ~ok THEN 0
                   ELSE IF signed /\ Head(t) = "-" THEN -DigitsValue(body)
                   ELSE DigitsValue(body)]

\* float(text) of Python on the alphabet of the model, as the exact rational
\* num/den: surrounding whitespace, an optional sign, digits with an optional
\* point (at least one digit in all)
FloatParse(text) ==
    LET t == Strip(text)
        signed == t # <<>> /\ Head(t) \in {"-", "+"}
        body == IF signed THEN Tail(t) ELSE t
        dots == {i \in 1..Len(body) : body[i] = "."}
        dot == IF dots = {} THEN Len(body) + 1 ELSE CHOOSE i \in dots : TRUE
        whole == SubSeq(body, 1, dot - 1)
        frac == SubSeq(body, dot + 1, Len(body))
        ok == /\ Cardinality(dots) <= 1
              /\ AllDigits(whole) /\ AllDigits(frac)
              /\ Len(whole) + Len(frac) >= 1
        mag == DigitsValue(whole \o frac)
    IN  [ok |-> ok,
         num |-> IF ~ok THEN 0
                 ELSE IF signed /\ Head(t) = "-" THEN -mag ELSE mag,
         den |-> IF ok THEN Pow10(Len(frac)) ELSE 1]

\* end (exclusive) of the longest run of characters of set cs from position i
RECURSIVE RunEnd(_, _, _)
RunEnd(s, i, cs) == IF i <= Len(s) /\ s[i] \in cs THEN RunEnd(s, i + 1, cs) ELSE i

\* one match of the pattern (\d+\.?\d*)\s*([hms]) starting exactly at i:
\* greedy digits, an optional point, greedy digits, whitespace, a unit
TokenAt(s, i) ==
    LET e1 == RunEnd(s, i, Digits)
        e2 == IF e1 <= Len(s) /\ s[e1] = "." THEN e1 + 1 ELSE e1
        e3 == RunEnd(s, e2, Digits)
        e4 == RunEnd(s, e3, {" "})
        ok == e1 > i /\ e4 <= Len(s) /\ s[e4] \in {"h", "m", "s"}
    IN  [ok |-> ok,
         num |-> IF ok THEN DigitsValue(SubSeq(s, i, e1 - 1) \o SubSeq(s, e2, e3 - 1))
                 ELSE 0,
         den |-> IF ok THEN Pow10(e3 - e2) ELSE 1,
         unit |-> IF ok THEN s[e4] ELSE "",
         next |-> IF ok THEN e4 + 1 ELSE i + 1]

UnitSeconds(unit) == CASE unit = "h" -> 3600 [] unit = "m" -> 60 [] unit = "s" -> 1

\* re.findall over the text from position i on: the left-to-right,
\* non-overlapping matches, as [count, total of int(value * unit)]
RECURSIVE FindAll(_, _)
FindAll(s, i) ==
    IF i > Len(s) THEN [count |-> 0, total |-> 0]
    ELSE LET m == TokenAt(s, i)
             rest == FindAll(s, m.next)
         IN  IF m.ok
             THEN [count |-> rest.count + 1,
                   total |-> rest.total + TruncDiv(m.num * UnitSeconds(m.unit), m.den)]
             ELSE rest

\* [mutant] a text with a colon that is not H:MM is refused at once
parse_duration_ColonOnly(duration_str) ==
    LET s == LowerStr(Strip(duration_str))
        colons == ColonPositions(s)
        c == IF colons = {} THEN 0 ELSE CHOOSE i \in colons : TRUE
        hours == IntParse(SubSeq(s, 1, c - 1))
        minutes == IntParse(SubSeq(s, c + 1, Len(s)))
        hmm == Cardinality(colons) = 1 /\ hours.ok /\ minutes.ok
        tokens == FindAll(s, 1)
        plain == FloatParse(s)
    IN  IF hmm THEN [ok |-> TRUE, value |-> hours.value * 3600 + minutes.value * 60]
        ELSE IF colons # {} THEN [ok |-> FALSE, value |-> 0]
        ELSE IF tokens.count > 0 THEN [ok |-> TRUE, value |-> tokens.total]
        ELSE IF plain.ok THEN [ok |-> TRUE, value |-> TruncDiv(plain.num * 60, plain.den)]
        ELSE [ok |-> FALSE, value |-> 0]

\* [mutant] a plain number is taken as seconds
parse_duration_PlainSeconds(duration_str) ==
    LET s == LowerStr(Strip(duration_str))
        colons == ColonPositions(s)
        c == IF colons = {} THEN 0 ELSE CHOOSE i \in colons : TRUE
        hours == IntParse(SubSeq(s, 1, c - 1))
        minutes == IntParse(SubSeq(s, c + 1, Len(s)))
        hmm == Cardinality(colons) = 1 /\ hours.ok /\ minutes.ok
        tokens == FindAll(s, 1)
        plain == FloatParse(s)
    IN  IF hmm THEN [ok |-> TRUE, value |-> hours.value * 3600 + minutes.value * 60]
        ELSE IF tokens.count > 0 THEN [ok |-> TRUE, value |-> tokens.total]
        ELSE IF plain.ok THEN [ok |-> TRUE, value |-> TruncDiv(plain.num, plain.den)]
        ELSE [ok |-> FALSE, value |-> 0]

\* parse_duration: [ok, value]; ok = FALSE is the ValueError
parse_duration(duration_str) ==
    LET s == LowerStr(Strip(duration_str))
        colons == ColonPositions(s)
        c == IF colons = {} THEN 0 ELSE CHOOSE i \in colons : TRUE
        hours == IntParse(SubSeq(s, 1, c - 1))
        minutes == IntParse(SubSeq(s, c + 1, Len(s)))
        hmm == Cardinality(colons) = 1 /\ hours.ok /\ minutes.ok
        tokens == FindAll(s, 1)
        plain == FloatParse(s)
    IN  IF hmm THEN [ok |-> TRUE, value |-> hours.value * 3600 + minutes.value * 60]
        ELSE IF tokens.count > 0 THEN [ok |-> TRUE, value |-> tokens.total]
        ELSE IF plain.ok THEN [ok |-> TRUE, value |-> TruncDiv(plain.num * 60, plain.den)]
        ELSE [ok |-> FALSE, value |-> 0]

\* str(n) of a natural number
RECURSIVE DigitsOf(_)
DigitsOf(n) ==
    LET last == CHOOSE c \in Digits : DigitVal(c) = n % 10
    IN  IF n < 10 THEN <<last>> ELSE Append(DigitsOf(n \div 10), last)

\* " ".join(parts)
RECURSIVE JoinSpace(_)
JoinSpace(parts) ==
    IF Len(parts) = 1 THEN parts[1]
    ELSE parts[1] \o <<" ">> \o JoinSpace(Tail(parts))

format_duration(seconds) ==
    IF seconds < 0 THEN <<"0", "m">>
    ELSE LET hours == seconds \div 3600
             minutes == (seconds % 3600) \div 60
             secs == seconds % 60
             parts ==
                 (IF hours > 0 THEN <<DigitsOf(hours) \o <<"h">>>> ELSE <<>>)
                     \o (IF minutes > 0 THEN <<DigitsOf(minutes) \o <<"m">>>> ELSE <<>>)
                     \o (IF secs > 0 /\ hours = 0
                         THEN <<DigitsOf(secs) \o <<"s">>>> ELSE <<>>)
         IN  IF parts # <<>> THEN JoinSpace(parts) ELSE <<"0", "m">>

\* the characters of the duration texts a call on its own is given
DurationChars == {"1", "5", "h", "m", "s", ":", ".", "-", " "}

\* every text of at most MaxTextLen of those characters, and the texts the
\* documentation of parse_duration names
DurationTexts ==
    UNION {[1..k -> DurationChars] : k \in 0..MaxTextLen}
        \cup { <<"1", "h", " ", "2", "0", "m">>,
                <<"1", ":", "2", "0">>,
                <<"8", "0">>,
                <<"2", "h">>, <<"3", "0", "m">>, <<"4", "5", "s">>,
                <<" ", "2", "H", " ">>,
                <<"1", ":", "3", "0", "m">>,
                <<"1", ":", "2", ":", "3">>,
                <<"-", "1", ":", "3", "0">> }

\* the seconds format_duration is given
DurationSeconds ==
    {-60, -1, 0, 1, 59, 60, 61, 119, 3599, 3600, 3601, 3660, 3661, 4800, 7200, 86399}

\* the duration texts submitted to AdjustEffectiveTime in the lifecycle model
AdjustTexts ==
    { <<"1", "m">>,                     \* 60
      <<"-", "5">>,                     \* -300: rejected by the check constraint
      <<"-", "1", ":", "3", "0">>,      \* -1800: rejected likewise
      <<"x">> }                         \* unparseable

-----------------------------------------------------------------------------
(* The inputs a behaviour draws from.  A behaviour either follows one      *)
(* session of one user over a long clock, or several sessions of several   *)
(* users and subjects at one instant.                                      *)

TimeScope ==
    [users |-> {"A"}, names |-> {"Math"}, goals |-> ClockInGoals,
     goalTexts |-> GoalTexts, notes |-> Notes, texts |-> AdjustTexts,
     maxSessions |-> 1, maxTime |-> MaxTime,
     step |-> 1, hours |-> {}, tz |-> 0]

StoreScope ==
    [users |-> Users, names |-> SubjectNames, goals |-> {""},
     goalTexts |-> {""}, notes |-> {NoText}, texts |-> {<<"x">>},
     maxSessions |-> MaxSessions, maxTime |-> 0,
     step |-> 1, hours |-> {}, tz |-> 0]

\* interleaved clock-in requests: sessions of one user at one instant
RaceScope ==
    [users |-> {"A"}, names |-> SubjectNames, goals |-> {""},
     goalTexts |-> {""}, notes |-> {NoText}, texts |-> {<<"1", "m">>},
     maxSessions |-> MaxSessions, maxTime |-> 0,
     step |-> 1, hours |-> {}, tz |-> 0]

-----------------------------------------------------------------------------
(* The calendar.  Dates are day numbers counted from a Monday; a naive     *)
(* datetime at midnight is the day number of its date.                     *)

Day == 86400 * TicksPerSecond
Week == 7 * Day

\* the instant of tick 0: a Sunday, 12:00 UTC (day 6 of the week of day 0)
Epoch == 6 * Day + 12 * 3600 * TicksPerSecond

\* UTC offset of the timezone get_week_start converts to (Australia/Sydney,
\* standard time)
ReferenceOffset == 10 * 3600 * TicksPerSecond

\* the UTC offsets the process may run under: UTC, or the reference timezone
ProcessOffsets == {0, ReferenceOffset}

\* the hours given to SetAllocation, as exact fractions num/den
AllocHours == { [num |-> 1, den |-> 1],        \* 1.0  -> 60 minutes
                [num |-> 51, den |-> 100],     \* 0.51 -> 30 minutes (30.6 truncated)
                [num |-> -1, den |-> 2],       \* -0.5: negative
                [num |-> -1, den |-> 100] }    \* -0.01: negative, 0 minutes if truncated

\* sessions and allocations of one user on two subjects at one instant;
\* an adjustment of half a minute
AllocScope ==
    [users |-> {"A"}, names |-> SubjectNames, goals |-> {""},
     goalTexts |-> {""}, notes |-> {NoText}, texts |-> {<<"3", "0", "s">>},
     maxSessions |-> 2, maxTime |-> 0,
     step |-> 1, hours |-> AllocHours, tz |-> 0]

\* one session of one user over a week boundary, the clock moving six hours
\* at a time, the process running under UTC offset tz
WeekScope(tz) ==
    [users |-> {"A"}, names |-> {"Math"}, goals |-> {""},
     goalTexts |-> {""}, notes |-> {NoText}, texts |-> {<<"x">>},
     maxSessions |-> 1, maxTime |-> MaxTime * 6 * 3600 * TicksPerSecond,
     step |-> 6 * 3600 * TicksPerSecond, hours |-> {[num |-> 1, den |-> 1]},
     tz |-> tz]

-----------------------------------------------------------------------------
(* The store and its queries *)

IdleReq ==
    [pc |-> "idle", user |-> "", name |-> "", goal |-> NoText, newUser |-> FALSE,
     sid |-> NoSession, ended_at |-> None, effective_override_seconds |-> None]

\* what a core call leaves: the tables after it, the session id it returns
\* (NoSession for None) or the exception it raises
Returns(ret, is_new, us, subj, sess) ==
    [users |-> us, subjects |-> subj, sessions |-> sess,
     ret |-> ret, is_new |-> is_new, raised |-> ""]

\* an exception leaves the request's transaction rolled back
Raises(exc) ==
    [users |-> users, subjects |-> subjects, sessions |-> sessions,
     ret |-> NoSession, is_new |-> FALSE, raised |-> exc]

\* [mutant] the status filter keeps RUNNING only
ActiveRows_RunningOnly(u) ==
    {i \in 1..Len(sessions) : sessions[i].user_id = u /\ sessions[i].status = "RUNNING"}

\* the rows get_active_session selects
ActiveRows(u) ==
    {i \in 1..Len(sessions) :
        sessions[i].user_id = u /\ sessions[i].status \in ActiveStatuses}

\* scalar_one_or_none raises MultipleResultsFound on more than one row
GetActiveRaises(u) == Cardinality(ActiveRows(u)) > 1

get_active_session(u) ==
    IF ActiveRows(u) = {} THEN NoSession ELSE CHOOSE i \in ActiveRows(u) : TRUE

\* [mutant] the lookup by id leaves out the owner
OwnedSession_AnyUser(sid, u) == sid \in 1..Len(sessions)

\* select(Session).where(Session.id == session_id, Session.user_id == user_id)
OwnedSession(sid, u) == sid \in 1..Len(sessions) /\ sessions[sid].user_id = u

SubjectRows(u, name) ==
    {i \in 1..Len(subjects) : subjects[i].user_id = u /\ subjects[i].name = name}

\* [mutant] get_or_create_subject always inserts
SubjectsAfter_AlwaysInsert(u, name) == Append(subjects, [user_id |-> u, name |-> name])

\* get_or_create_subject: the table after the call, and the id it returns
SubjectsAfter(u, name) ==
    IF SubjectRows(u, name) = {}
    THEN Append(subjects, [user_id |-> u, name |-> name])
    ELSE subjects

SubjectId(u, name) ==
    IF SubjectRows(u, name) = {}
    THEN Len(subjects) + 1
    ELSE CHOOSE i \in SubjectRows(u, name) : TRUE

-----------------------------------------------------------------------------
(* calculate_effective_time *)

\* [mutant] the open pause is counted whatever the status
calculate_effective_time_AnyStatus(session, t) ==
    IF session.effective_override_seconds # None
    THEN session.effective_override_seconds
    ELSE LET end_time == IF session.ended_at # None THEN session.ended_at ELSE t
             base_seconds == Seconds(end_time - session.started_at)
             current_pause ==
                 IF session.pause_started_at # None
                 THEN Seconds(t - session.pause_started_at)
                 ELSE 0
             paused_seconds == session.total_paused_seconds + current_pause
         IN  IF base_seconds - paused_seconds > 0
             THEN base_seconds - paused_seconds
             ELSE 0

\* [mutant] the open pause is not subtracted
calculate_effective_time_NoOpenPause(session, t) ==
    IF session.effective_override_seconds # None
    THEN session.effective_override_seconds
    ELSE LET end_time == IF session.ended_at # None THEN session.ended_at ELSE t
             base_seconds == Seconds(end_time - session.started_at)
             paused_seconds == session.total_paused_seconds
         IN  IF base_seconds - paused_seconds > 0
             THEN base_seconds - paused_seconds
             ELSE 0

\* [mutant] the override is not consulted
calculate_effective_time_NoOverride(session, t) ==
    LET end_time == IF session.ended_at # None THEN session.ended_at ELSE t
        base_seconds == Seconds(end_time - session.started_at)
        current_pause ==
            IF session.status = "PAUSED" /\ session.pause_started_at # None
            THEN Seconds(t - session.pause_started_at)
            ELSE 0
        paused_seconds == session.total_paused_seconds + current_pause
    IN  IF base_seconds - paused_seconds > 0
        THEN base_seconds - paused_seconds
        ELSE 0

calculate_effective_time(session, t) ==
    IF session.effective_override_seconds # None
    THEN session.effective_override_seconds
    ELSE LET end_time == IF session.ended_at # None THEN session.ended_at ELSE t
             base_seconds == Seconds(end_time - session.started_at)
             current_pause ==
                 IF session.status = "PAUSED" /\ session.pause_started_at # None
                 THEN Seconds(t - session.pause_started_at)
                 ELSE 0
             paused_seconds == session.total_paused_seconds + current_pause
         IN  IF base_seconds - paused_seconds > 0
             THEN base_seconds - paused_seconds
             ELSE 0

-----------------------------------------------------------------------------
(* The row each operation writes *)

NewSession(u, subject_id, goal, t) ==
    [user_id |-> u, subject_id |-> subject_id, started_at |-> t, ended_at |-> None,
     goal |-> goal, note |-> NoText, status |-> "RUNNING",
     total_paused_seconds |-> 0, pause_started_at |-> None,
     effective_override_seconds |-> None]

\* [mutant] clock-out of a paused session does not accrue the open pause
ClockedOut_NoAccrual(s, t, note) ==
    [s EXCEPT
       !.ended_at = t,
       !.status = "ENDED_UNCONFIRMED",
       !.note = IF note \notin {NoText, ""} THEN note ELSE @]

ClockedOut(s, t, note) ==
    LET accrue == s.status = "PAUSED" /\ s.pause_started_at # None
    IN  [s EXCEPT
           !.total_paused_seconds =
               IF accrue THEN @ + Seconds(t - s.pause_started_at) ELSE @,
           !.pause_started_at = IF accrue THEN None ELSE @,
           !.ended_at = t,
           !.status = "ENDED_UNCONFIRMED",
           !.note = IF note \notin {NoText, ""} THEN note ELSE @]

Paused(s, t) == [s EXCEPT !.status = "PAUSED", !.pause_started_at = t]

\* [mutant] the resume drops the open pause
Resumed_NoAccrual(s, t) == [s EXCEPT !.status = "RUNNING", !.pause_started_at = None]

\* [mutant] the pause is assigned to the total instead of added
Resumed_Assign(s, t) ==
    [s EXCEPT
       !.total_paused_seconds =
           IF s.pause_started_at # None THEN Seconds(t - s.pause_started_at) ELSE @,
       !.status = "RUNNING",
       !.pause_started_at = None]

Resumed(s, t) ==
    [s EXCEPT
       !.total_paused_seconds =
           IF s.pause_started_at # None THEN @ + Seconds(t - s.pause_started_at) ELSE @,
       !.status = "RUNNING",
       !.pause_started_at = None]

Adjusted(s, seconds) == [s EXCEPT !.effective_override_seconds = seconds]

\* [mutant] confirming drops the override
Confirmed_ClearOverride(s) ==
    [s EXCEPT !.status = "ENDED_CONFIRMED", !.effective_override_seconds = None]

Confirmed(s) == [s EXCEPT !.status = "ENDED_CONFIRMED"]

\* [mutant] the reopened session starts anew
Reopened_Restart(s) ==
    [s EXCEPT !.status = "RUNNING", !.ended_at = None,
              !.effective_override_seconds = None, !.started_at = now]

\* [mutant] the reopened session forgets its pauses
Reopened_ResetPaused(s) ==
    [s EXCEPT !.status = "RUNNING", !.ended_at = None,
              !.effective_override_seconds = None, !.total_paused_seconds = 0]

\* [mutant] the override survives the reopen
Reopened_KeepOverride(s) == [s EXCEPT !.status = "RUNNING", !.ended_at = None]

Reopened(s) ==
    [s EXCEPT !.status = "RUNNING", !.ended_at = None,
              !.effective_override_seconds = None]

GoalUpdated(s, goal) == [s EXCEPT !.goal = goal]

\* [mutant] table sessions without its check constraints
RowAccepted_NoCheck(s) ==
    /\ s.total_paused_seconds <= Int32Max
    /\ \/ s.effective_override_seconds = None
       \/ s.effective_override_seconds <= Int32Max

\* the check constraints and the column width of table sessions, tested at flush
RowAccepted(s) ==
    /\ s.total_paused_seconds >= 0
    /\ s.total_paused_seconds <= Int32Max
    /\ \/ s.effective_override_seconds = None
       \/ /\ s.effective_override_seconds >= 0
          /\ s.effective_override_seconds <= Int32Max

\* the sessions table with row sid replaced
WithRow(sid, row) == [sessions EXCEPT ![sid] = row]

-----------------------------------------------------------------------------
(* The core calls, as the tables and the result each leaves *)

\* clock_in from get_or_create_subject on: the insert of the new session
InsertSession(u, name, goal) ==
    Returns(Len(sessions) + 1, TRUE, users \cup {u}, SubjectsAfter(u, name),
            Append(sessions, NewSession(u, SubjectId(u, name), goal, now)))

\* [mutant] the subject is resolved before the active session is looked up
clock_in_SubjectFirst(u, name, goal) ==
    IF GetActiveRaises(u) THEN Raises("MultipleResultsFound")
    ELSE IF get_active_session(u) # NoSession
    THEN Returns(get_active_session(u), FALSE, users \cup {u},
                 SubjectsAfter(u, name), sessions)
    ELSE InsertSession(u, name, goal)

clock_in(u, name, goal) ==
    IF GetActiveRaises(u) THEN Raises("MultipleResultsFound")
    ELSE IF get_active_session(u) # NoSession
    THEN Returns(get_active_session(u), FALSE, users \cup {u}, subjects, sessions)
    ELSE InsertSession(u, name, goal)

clock_out(u, note) ==
    IF GetActiveRaises(u) THEN Raises("MultipleResultsFound")
    ELSE IF get_active_session(u) = NoSession
    THEN Returns(NoSession, FALSE, users, subjects, sessions)
    ELSE LET sid == get_active_session(u)
         IN  Returns(sid, FALSE, users, subjects,
                     WithRow(sid, ClockedOut(sessions[sid], now, note)))

\* [mutant] the status of the active session is not tested
pause_session_AnyActive(u) ==
    IF GetActiveRaises(u) THEN Raises("MultipleResultsFound")
    ELSE IF get_active_session(u) = NoSession
    THEN Returns(NoSession, FALSE, users, subjects, sessions)
    ELSE LET sid == get_active_session(u)
         IN  Returns(sid, FALSE, users, subjects,
                     WithRow(sid, Paused(sessions[sid], now)))

pause_session(u) ==
    IF GetActiveRaises(u) THEN Raises("MultipleResultsFound")
    ELSE IF \/ get_active_session(u) = NoSession
            \/ sessions[get_active_session(u)].status # "RUNNING"
    THEN Returns(NoSession, FALSE, users, subjects, sessions)
    ELSE LET sid == get_active_session(u)
         IN  Returns(sid, FALSE, users, subjects,
                     WithRow(sid, Paused(sessions[sid], now)))

resume_session(u) ==
    IF GetActiveRaises(u) THEN Raises("MultipleResultsFound")
    ELSE IF \/ get_active_session(u) = NoSession
            \/ sessions[get_active_session(u)].status # "PAUSED"
    THEN Returns(NoSession, FALSE, users, subjects, sessions)
    ELSE LET sid == get_active_session(u)
         IN  Returns(sid, FALSE, users, subjects,
                     WithRow(sid, Resumed(sessions[sid], now)))

\* [mutant] the override is reset before the text is parsed
adjust_effective_time_ClearOnError(sid, u, text) ==
    IF ~OwnedSession(sid, u)
    THEN Returns(NoSession, FALSE, users, subjects, sessions)
    ELSE IF ~parse_duration(text).ok
    THEN Returns(NoSession, FALSE, users, subjects,
                 WithRow(sid, Adjusted(sessions[sid], None)))
    ELSE IF ~RowAccepted(Adjusted(sessions[sid], parse_duration(text).value))
    THEN Raises("IntegrityError")
    ELSE Returns(sid, FALSE, users, subjects,
                 WithRow(sid, Adjusted(sessions[sid], parse_duration(text).value)))

adjust_effective_time(sid, u, text) ==
    IF ~OwnedSession(sid, u)
    THEN Returns(NoSession, FALSE, users, subjects, sessions)
    ELSE IF ~parse_duration(text).ok
    THEN Returns(NoSession, FALSE, users, subjects, sessions)
    ELSE IF ~RowAccepted(Adjusted(sessions[sid], parse_duration(text).value))
    THEN Raises("IntegrityError")
    ELSE Returns(sid, FALSE, users, subjects,
                 WithRow(sid, Adjusted(sessions[sid], parse_duration(text).value)))

\* [mutant] only an ended session is confirmed
confirm_session_EndedOnly(sid, u) ==
    IF ~OwnedSession(sid, u)
    THEN Returns(NoSession, FALSE, users, subjects, sessions)
    ELSE IF sessions[sid].status \notin {"ENDED_UNCONFIRMED", "ENDED_CONFIRMED"}
    THEN Returns(NoSession, FALSE, users, subjects, sessions)
    ELSE Returns(sid, FALSE, users, subjects, WithRow(sid, Confirmed(sessions[sid])))

confirm_session(sid, u) ==
    IF ~OwnedSession(sid, u)
    THEN Returns(NoSession, FALSE, users, subjects, sessions)
    ELSE Returns(sid, FALSE, users, subjects, WithRow(sid, Confirmed(sessions[sid])))

\* [mutant] only the other sessions of the user are tested for being active
reopen_session_OthersOnly(sid, u) ==
    IF ~OwnedSession(sid, u)
    THEN Returns(NoSession, FALSE, users, subjects, sessions)
    ELSE IF ActiveRows(u) \ {sid} # {}
    THEN Returns(NoSession, FALSE, users, subjects, sessions)
    ELSE Returns(sid, FALSE, users, subjects, WithRow(sid, Reopened(sessions[sid])))

\* [mutant] the active session is not looked up
reopen_session_NoActiveCheck(sid, u) ==
    IF ~OwnedSession(sid, u)
    THEN Returns(NoSession, FALSE, users, subjects, sessions)
    ELSE Returns(sid, FALSE, users, subjects, WithRow(sid, Reopened(sessions[sid])))

reopen_session(sid, u) ==
    IF ~OwnedSession(sid, u)
    THEN Returns(NoSession, FALSE, users, subjects, sessions)
    ELSE IF GetActiveRaises(u) THEN Raises("MultipleResultsFound")
    ELSE IF get_active_session(u) # NoSession
    THEN Returns(NoSession, FALSE, users, subjects, sessions)
    ELSE Returns(sid, FALSE, users, subjects, WithRow(sid, Reopened(sessions[sid])))

update_session_goal(sid, u, goal) ==
    IF ~OwnedSession(sid, u)
    THEN Returns(NoSession, FALSE, users, subjects, sessions)
    ELSE Returns(sid, FALSE, users, subjects,
                 WithRow(sid, GoalUpdated(sessions[sid], goal)))

\* a read: the session of that id if the user owns it
get_session_by_id(sid, u) ==
    Returns(IF OwnedSession(sid, u) THEN sid ELSE NoSession, FALSE,
            users, subjects, sessions)

-----------------------------------------------------------------------------
(* Weekly allocations (app/allocation.py) *)

NoAllocation == 0

\* get_week_start: the Monday of the local date of instant t in the reference
\* timezone, as a naive datetime at midnight
get_week_start(t) ==
    LET local_dt == Epoch + t + ReferenceOffset
        date == local_dt \div Day
        days_since_monday == date % 7
    IN  date - days_since_monday

\* the instant a naive datetime at midnight of day d stands for when it is
\* compared with a timestamptz column: the driver reads it in the timezone
\* of the process
NaiveInstant(d) == d * Day - scope.tz - Epoch

\* what a call on table weekly_allocations leaves and returns
AllocReturns(ret, us, subj, allocs) ==
    [users |-> us, subjects |-> subj, allocations |-> allocs,
     ret |-> ret, raised |-> ""]

AllocRaises(exc) ==
    [users |-> users, subjects |-> subjects, allocations |-> allocations,
     ret |-> NoAllocation, raised |-> exc]

\* the check constraint and the column width of table weekly_allocations
AllocationAccepted(a) ==
    a.minutes_allocated >= 0 /\ a.minutes_allocated <= Int32Max

\* the rows the lookup by (user, subject, week) selects
AllocationRows(u, subject_id, week_start) ==
    {k \in 1..Len(allocations) :
        /\ allocations[k].user_id = u
        /\ allocations[k].subject_id = subject_id
        /\ allocations[k].week_start_date = week_start}

\* [mutant] an allocation is always inserted
set_weekly_allocation_AlwaysInsert(u, name, hours) ==
    LET subject_id == SubjectId(u, name)
        week_start == get_week_start(now)
        minutes == TruncDiv(hours.num * 60, hours.den)
        created == [user_id |-> u, subject_id |-> subject_id,
                    week_start_date |-> week_start, minutes_allocated |-> minutes,
                    created_at |-> now, updated_at |-> now]
    IN  IF ~AllocationAccepted(created) THEN AllocRaises("IntegrityError")
        ELSE AllocReturns(Len(allocations) + 1, users \cup {u},
                          SubjectsAfter(u, name), Append(allocations, created))

\* set_weekly_allocation for the current week
set_weekly_allocation(u, name, hours) ==
    LET subject_id == SubjectId(u, name)
        week_start == get_week_start(now)
        minutes == TruncDiv(hours.num * 60, hours.den)
        found == AllocationRows(u, subject_id, week_start)
        k == CHOOSE k \in found : TRUE
        updated == [allocations[k] EXCEPT !.minutes_allocated = minutes,
                                          !.updated_at = now]
        created == [user_id |-> u, subject_id |-> subject_id,
                    week_start_date |-> week_start, minutes_allocated |-> minutes,
                    created_at |-> now, updated_at |-> now]
    IN  IF found # {}
        THEN IF ~AllocationAccepted(updated) THEN AllocRaises("IntegrityError")
             ELSE AllocReturns(k, users \cup {u}, SubjectsAfter(u, name),
                               [allocations EXCEPT ![k] = updated])
        ELSE IF ~AllocationAccepted(created) THEN AllocRaises("IntegrityError")
             ELSE AllocReturns(Len(allocations) + 1, users \cup {u},
                               SubjectsAfter(u, name), Append(allocations, created))

\* [mutant] the sign of the hours is not tested
handle_alloc_set_NoSignCheck(u, name, hours) == set_weekly_allocation(u, name, hours)

\* handle_alloc_set: negative hours are answered "Invalid hours value."
handle_alloc_set(u, name, hours) ==
    IF hours.num < 0
    THEN AllocReturns(NoAllocation, users, subjects, allocations)
    ELSE set_weekly_allocation(u, name, hours)

\* [mutant] the sessions are selected by ended_at
WeekSessions_ByEnd(u, subject_id, week_start) ==
    {i \in 1..Len(sessions) :
        /\ sessions[i].user_id = u
        /\ sessions[i].subject_id = subject_id
        /\ sessions[i].status = "ENDED_CONFIRMED"
        /\ sessions[i].ended_at # None
        /\ sessions[i].ended_at >= NaiveInstant(week_start)
        /\ sessions[i].ended_at < NaiveInstant(week_start + 7)}

\* the confirmed sessions of a subject get_weekly_allocations selects
WeekSessions(u, subject_id, week_start) ==
    {i \in 1..Len(sessions) :
        /\ sessions[i].user_id = u
        /\ sessions[i].subject_id = subject_id
        /\ sessions[i].status = "ENDED_CONFIRMED"
        /\ sessions[i].started_at >= NaiveInstant(week_start)
        /\ sessions[i].started_at < NaiveInstant(week_start + 7)}

\* the seconds get_weekly_allocations adds for one session
SessionSpent(session) ==
    IF session.effective_override_seconds # None
    THEN session.effective_override_seconds
    ELSE IF session.ended_at # None
    THEN LET base == Seconds(session.ended_at - session.started_at)
         IN  IF base - session.total_paused_seconds > 0
             THEN base - session.total_paused_seconds
             ELSE 0
    ELSE 0

RECURSIVE TotalSpent(_)
TotalSpent(ids) ==
    IF ids = {} THEN 0
    ELSE LET i == CHOOSE i \in ids : TRUE
         IN  SessionSpent(sessions[i]) + TotalSpent(ids \ {i})

\* minutes_spent = total_seconds // 60
MinutesSpent(ids) == TotalSpent(ids) \div 60

\* the allocations of a user for a week
WeekAllocations(u, week_start) ==
    {k \in 1..Len(allocations) :
        allocations[k].user_id = u /\ allocations[k].week_start_date = week_start}

\* get_weekly_allocations: the lists the call may return, each row an
\* allocation with its minutes spent, by minutes_allocated descending (rows
\* of equal minutes in either order)
get_weekly_allocations(u, week_start) ==
    LET rows == WeekAllocations(u, week_start)
        orders == {f \in [1..Cardinality(rows) -> rows] :
                      /\ \A i, j \in DOMAIN f : i # j => f[i] # f[j]
                      /\ \A i, j \in DOMAIN f :
                             i < j => allocations[f[i]].minutes_allocated
                                          >= allocations[f[j]].minutes_allocated}
    IN  {[i \in DOMAIN f |->
             [allocation |-> f[i],
              minutes_spent |->
                  MinutesSpent(WeekSessions(u, allocations[f[i]].subject_id, week_start))]] :
         f \in orders}

\* [mutant] every ended session of the subject is counted
get_subject_allocation_AnyEnded(u, name, week_start) ==
    IF SubjectRows(u, name) = {}
    THEN [allocation |-> NoAllocation, minutes_spent |-> 0]
    ELSE LET subject_id == CHOOSE i \in SubjectRows(u, name) : TRUE
             found == AllocationRows(u, subject_id, week_start)
             selected ==
                 {i \in 1..Len(sessions) :
                     /\ sessions[i].user_id = u
                     /\ sessions[i].subject_id = subject_id
                     /\ sessions[i].status \in {"ENDED_UNCONFIRMED", "ENDED_CONFIRMED"}
                     /\ sessions[i].started_at >= NaiveInstant(week_start)
                     /\ sessions[i].started_at < NaiveInstant(week_start + 7)}
         IN  IF found = {}
             THEN [allocation |-> NoAllocation, minutes_spent |-> 0]
             ELSE [allocation |-> CHOOSE k \in found : TRUE,
                   minutes_spent |-> TotalSpent(selected) \div 60]

\* get_subject_allocation: the allocation and its minutes spent, or None
get_subject_allocation(u, name, week_start) ==
    IF SubjectRows(u, name) = {}
    THEN [allocation |-> NoAllocation, minutes_spent |-> 0]
    ELSE LET subject_id == CHOOSE i \in SubjectRows(u, name) : TRUE
             found == AllocationRows(u, subject_id, week_start)
             selected ==
                 {i \in 1..Len(sessions) :
                     /\ sessions[i].user_id = u
                     /\ sessions[i].subject_id = subject_id
                     /\ sessions[i].status = "ENDED_CONFIRMED"
                     /\ sessions[i].started_at >= NaiveInstant(week_start)
                     /\ sessions[i].started_at < NaiveInstant(week_start + 7)}
         IN  IF found = {}
             THEN [allocation |-> NoAllocation, minutes_spent |-> 0]
             ELSE [allocation |-> CHOOSE k \in found : TRUE,
                   minutes_spent |-> TotalSpent(selected) \div 60]

-----------------------------------------------------------------------------
(* Initial state: an empty store *)

EmptyStore ==
    /\ users = {}
    /\ subjects = <<>>
    /\ sessions = <<>>
    /\ now = 0
    /\ req = [p \in Procs |-> IdleReq]
    /\ allocations = <<>>

\* no call of a duration function on its own
NoCalc == [fn |-> "", text |-> <<>>, seconds |-> 0, pc |-> "none"]

Init == EmptyStore /\ calc = NoCalc /\ scope \in {TimeScope, StoreScope}

-----------------------------------------------------------------------------
(* The operations, each one request run to completion and committed *)

Commit(r) ==
    /\ users' = r.users
    /\ subjects' = r.subjects
    /\ sessions' = r.sessions
    /\ UNCHANGED <<now, req, scope, allocations, calc>>

Tick ==
    /\ now + scope.step <= scope.maxTime
    /\ now' = now + scope.step
    /\ UNCHANGED <<users, subjects, sessions, req, scope, allocations, calc>>

ClockIn ==
    \E u \in scope.users, name \in scope.names, goal \in scope.goals :
        /\ Len(clock_in(u, name, goal).sessions) <= scope.maxSessions
        /\ Commit(clock_in(u, name, goal))

ClockOut == \E u \in scope.users, note \in scope.notes : Commit(clock_out(u, note))

Pause == \E u \in scope.users : Commit(pause_session(u))

Resume == \E u \in scope.users : Commit(resume_session(u))

AdjustEffectiveTime ==
    \E sid \in SessionIds, u \in scope.users, text \in scope.texts :
        Commit(adjust_effective_time(sid, u, text))

Confirm == \E sid \in SessionIds, u \in scope.users : Commit(confirm_session(sid, u))

Reopen == \E sid \in SessionIds, u \in scope.users : Commit(reopen_session(sid, u))

UpdateGoal ==
    \E sid \in SessionIds, u \in scope.users, goal \in scope.goalTexts :
        Commit(update_session_goal(sid, u, goal))

Next ==
    \/ Tick
    \/ ClockIn
    \/ ClockOut
    \/ Pause
    \/ Resume
    \/ AdjustEffectiveTime
    \/ Confirm
    \/ Reopen
    \/ UpdateGoal

Spec == Init /\ [][Next]_vars

-----------------------------------------------------------------------------
(* Interleaved clock-in and reopen requests.  Each request runs in its own  *)
(* transaction (READ COMMITTED): what it writes is seen by the others      *)
(* when it commits, and the commit follows its last write.                 *)

\* whether another request holds the uncommitted insert of user u
UserInsertPending(p, u) ==
    \E q \in Procs \ {p} : req[q].pc = "insert" /\ req[q].newUser /\ req[q].user = u

\* clock_in up to the return of get_active_session
ClockInRead ==
    \E p \in Procs, u \in scope.users, name \in scope.names, goal \in scope.goals :
        /\ req[p].pc = "idle"
        /\ IF u \notin users /\ UserInsertPending(p, u)
           THEN \* INSERT INTO users waits for the other transaction
                /\ req' = [req EXCEPT ![p] = [IdleReq EXCEPT !.pc = "blocked", !.user = u]]
                /\ UNCHANGED users
           ELSE IF GetActiveRaises(u)
           THEN UNCHANGED <<users, req>>
           ELSE IF get_active_session(u) # NoSession
           THEN /\ users' = users \cup {u}
                /\ UNCHANGED req
           ELSE /\ req' = [req EXCEPT ![p] =
                            [IdleReq EXCEPT !.pc = "insert", !.user = u,
                                 !.name = name, !.goal = goal,
                                 !.newUser = u \notin users]]
                /\ UNCHANGED users
        /\ UNCHANGED <<subjects, sessions, now, scope, allocations, calc>>

\* the rest of clock_in, and the commit of handle_session_in
ClockInInsert ==
    \E p \in Procs :
        /\ req[p].pc = "insert"
        /\ Len(sessions) < scope.maxSessions
        /\ LET r == InsertSession(req[p].user, req[p].name, req[p].goal)
           IN  /\ users' = r.users
               /\ subjects' = r.subjects
               /\ sessions' = r.sessions
        /\ req' = [req EXCEPT ![p] = IdleReq]
        /\ UNCHANGED <<now, scope, allocations, calc>>

\* the waiting INSERT INTO users fails on the primary key once the other commits
ClockInUserConflict ==
    \E p \in Procs :
        /\ req[p].pc = "blocked"
        /\ req[p].user \in users
        /\ req' = [req EXCEPT ![p] = IdleReq]
        /\ UNCHANGED <<users, subjects, sessions, now, scope, allocations, calc>>

\* reopen_session up to the return of get_active_session: the request holds
\* the session as it loaded it
ReopenRead ==
    \E p \in Procs, sid \in SessionIds, u \in scope.users :
        /\ req[p].pc = "idle"
        /\ IF \/ ~OwnedSession(sid, u)
              \/ GetActiveRaises(u)
              \/ get_active_session(u) # NoSession
           THEN UNCHANGED req
           ELSE req' = [req EXCEPT ![p] =
                           [IdleReq EXCEPT
                              !.pc = "reopen", !.user = u, !.sid = sid,
                              !.ended_at = sessions[sid].ended_at,
                              !.effective_override_seconds =
                                  sessions[sid].effective_override_seconds]]
        /\ UNCHANGED <<users, subjects, sessions, now, scope, allocations, calc>>

\* the row the flush of reopen_session leaves: the UPDATE sets the columns
\* whose assigned value differs from the loaded one
ReopenFlushed(s, loaded) ==
    [s EXCEPT
       !.status = "RUNNING",
       !.ended_at = IF loaded.ended_at # None THEN None ELSE @,
       !.effective_override_seconds =
           IF loaded.effective_override_seconds # None THEN None ELSE @]

\* the rest of reopen_session, and the commit of handle_button
ReopenWrite ==
    \E p \in Procs :
        /\ req[p].pc = "reopen"
        /\ sessions' = WithRow(req[p].sid, ReopenFlushed(sessions[req[p].sid], req[p]))
        /\ req' = [req EXCEPT ![p] = IdleReq]
        /\ UNCHANGED <<users, subjects, now, scope, allocations, calc>>

InitRace == EmptyStore /\ calc = NoCalc /\ scope = RaceScope

NextRace ==
    \/ ClockInRead
    \/ ClockInInsert
    \/ ClockInUserConflict
    \/ ClockOut
    \/ Pause
    \/ Resume
    \/ AdjustEffectiveTime
    \/ Confirm
    \/ ReopenRead
    \/ ReopenWrite
    \/ UpdateGoal

SpecRace == InitRace /\ [][NextRace]_vars

-----------------------------------------------------------------------------
(* The lifecycle together with the weekly allocations *)

CommitAlloc(r) ==
    /\ users' = r.users
    /\ subjects' = r.subjects
    /\ allocations' = r.allocations
    /\ UNCHANGED <<sessions, now, req, scope, calc>>

SetAllocation ==
    \E u \in scope.users, name \in scope.names, hours \in scope.hours :
        CommitAlloc(handle_alloc_set(u, name, hours))

InitAlloc ==
    /\ EmptyStore
    /\ calc = NoCalc
    /\ scope \in {AllocScope} \cup {WeekScope(tz) : tz \in ProcessOffsets}

NextAlloc ==
    \/ Tick
    \/ ClockIn
    \/ ClockOut
    \/ Pause
    \/ Resume
    \/ AdjustEffectiveTime
    \/ Confirm
    \/ Reopen
    \/ UpdateGoal
    \/ SetAllocation

SpecAlloc == InitAlloc /\ [][NextAlloc]_vars

-----------------------------------------------------------------------------
(* parse_duration and format_duration called on their own: the argument is *)
(* drawn at the start, the call returns or raises.                         *)

PureScope ==
    [users |-> {}, names |-> {}, goals |-> {}, goalTexts |-> {}, notes |-> {},
     texts |-> {}, maxSessions |-> 0, maxTime |-> 0,
     step |-> 1, hours |-> {}, tz |-> 0]

InitPure ==
    /\ EmptyStore
    /\ scope = PureScope
    /\ \/ \E text \in DurationTexts :
              calc = [fn |-> "parse_duration", text |-> text, seconds |-> 0,
                      pc |-> "call"]
       \/ \E seconds \in DurationSeconds :
              calc = [fn |-> "format_duration", text |-> <<>>, seconds |-> seconds,
                      pc |-> "call"]

ParseDuration ==
    /\ calc.fn = "parse_duration" /\ calc.pc = "call"
    /\ calc' = IF parse_duration(calc.text).ok
               THEN [calc EXCEPT !.seconds = parse_duration(calc.text).value,
                                 !.pc = "return"]
               ELSE [calc EXCEPT !.pc = "ValueError"]
    /\ UNCHANGED <<users, subjects, sessions, now, req, scope, allocations>>

FormatDuration ==
    /\ calc.fn = "format_duration" /\ calc.pc = "call"
    /\ calc' = [calc EXCEPT !.text = format_duration(calc.seconds), !.pc = "return"]
    /\ UNCHANGED <<users, subjects, sessions, now, req, scope, allocations>>

NextPure == ParseDuration \/ FormatDuration

SpecPure == InitPure /\ [][NextPure]_vars

-----------------------------------------------------------------------------
(* Vocabulary of the properties *)

Ended == {"ENDED_UNCONFIRMED", "ENDED_CONFIRMED"}

\* the instants at which effective time is evaluated reach past the clock
Horizon == MaxTime + TicksPerSecond

SessionsOf(u) == {i \in 1..Len(sessions) : sessions[i].user_id = u}

ActiveOf(u) == {i \in SessionsOf(u) : sessions[i].status \in {"RUNNING", "PAUSED"}}

TheActive(u) == CHOOSE i \in ActiveOf(u) : TRUE

HasSubject(u, name) ==
    \E k \in 1..Len(subjects) : subjects[k].user_id = u /\ subjects[k].name = name

-----------------------------------------------------------------------------
(* Properties *)

\* C1: after any sequence of lifecycle operations run one at a time, every
\* user has at most one session whose status is RUNNING or PAUSED.
C1_AtMostOneActive == \A u \in Users : Cardinality(ActiveOf(u)) <= 1

\* a user with an active session beside an earlier session of theirs
C1_Witness ==
    \E u \in Users : Cardinality(ActiveOf(u)) = 1 /\ Cardinality(SessionsOf(u)) >= 2

C3_PauseStartedIffPaused ==
    \A i \in 1..Len(sessions) :
        (sessions[i].pause_started_at # None) <=> (sessions[i].status = "PAUSED")

\* C4: a session's ended_at is set if and only if its status is
\* ENDED_UNCONFIRMED or ENDED_CONFIRMED, and a reopen clears it.
C4_EndedAtIffEnded ==
    /\ \A i \in 1..Len(sessions) :
           (sessions[i].ended_at # None) <=> (sessions[i].status \in Ended)
    /\ \A sid \in SessionIds, u \in Users :
           reopen_session(sid, u).ret = sid =>
               reopen_session(sid, u).sessions[sid].ended_at = None

\* C5: for a RUNNING session with no override, the effective time is
\* non-decreasing in now, from started_at on.
C5_RunningMonotone ==
    \A i \in 1..Len(sessions) :
        (sessions[i].status = "RUNNING" /\ sessions[i].effective_override_seconds = None)
        => \A n1, n2 \in sessions[i].started_at..Horizon :
               n1 <= n2 =>
                   calculate_effective_time(sessions[i], n1)
                       <= calculate_effective_time(sessions[i], n2)

\* a RUNNING session without override that was paused, confirmed and reopened
C5_Witness ==
    \E i \in 1..Len(sessions) :
        /\ sessions[i].status = "RUNNING"
        /\ sessions[i].effective_override_seconds = None
        /\ sessions[i].pause_started_at # None
        /\ sessions[i].started_at < now

\* C6: for a session that is ENDED_UNCONFIRMED or ENDED_CONFIRMED, the
\* effective time is the same at every now.
C6_EndedConstant ==
    \A i \in 1..Len(sessions) :
        sessions[i].status \in Ended
        => \A n1, n2 \in now..Horizon :
               calculate_effective_time(sessions[i], n1)
                   = calculate_effective_time(sessions[i], n2)

\* C7: a pause at t1 followed by a resume at t2 adds the whole seconds of
\* t2 - t1 to total_paused_seconds, and from then on the effective time (no
\* override) is the seconds since started_at minus the seconds of the
\* completed pauses.
C7_PauseResumeAccrual ==
    \A u \in Users :
        Cardinality(ActiveOf(u)) = 1 =>
            LET sid == TheActive(u)
                s == sessions[sid]
                p == pause_session(u)
                r == resume_session(u)
                dt == Seconds(now - s.pause_started_at)
            IN  /\ s.status = "RUNNING" =>
                       /\ p.ret = sid
                       /\ p.sessions[sid].status = "PAUSED"
                       /\ p.sessions[sid].pause_started_at = now
                       /\ p.sessions[sid].total_paused_seconds = s.total_paused_seconds
                /\ s.status = "PAUSED" =>
                       /\ s.pause_started_at # None /\ s.pause_started_at <= now
                       \* the pause start stays put until the resume
                       /\ \A text \in AdjustTexts, goal \in GoalTexts :
                              /\ adjust_effective_time(sid, u, text).sessions[sid]
                                     .pause_started_at = s.pause_started_at
                              /\ update_session_goal(sid, u, goal).sessions[sid]
                                     .pause_started_at = s.pause_started_at
                       /\ r.ret = sid
                       /\ r.sessions[sid].status = "RUNNING"
                       /\ r.sessions[sid].total_paused_seconds
                              = s.total_paused_seconds + dt
                       /\ r.sessions[sid].effective_override_seconds = None =>
                              \A n \in now..Horizon :
                                  calculate_effective_time(r.sessions[sid], n)
                                      = Seconds(n - s.started_at)
                                            - (s.total_paused_seconds + dt)

\* a RUNNING session, no override, with a second or more of completed pauses
C7_Witness ==
    \E i \in 1..Len(sessions) :
        /\ sessions[i].status = "RUNNING"
        /\ sessions[i].effective_override_seconds = None
        /\ sessions[i].pause_started_at = None
        /\ sessions[i].total_paused_seconds >= 1

\* C8: ClockIn of a user who has a RUNNING or PAUSED session returns that
\* session with is_new = False and changes no session and no subject,
\* whatever subject name and goal are passed.
C8_ClockInWhileActive ==
    \A u \in Users, name \in SubjectNames, goal \in ClockInGoals :
        Cardinality(ActiveOf(u)) = 1 =>
            LET r == clock_in(u, name, goal)
            IN  /\ r.raised = ""
                /\ r.ret = TheActive(u)
                /\ r.is_new = FALSE
                /\ r.sessions = sessions
                /\ r.subjects = subjects

\* a user with an active session and a subject name they do not have yet
C8_Witness ==
    \E u \in Users, name \in SubjectNames :
        Cardinality(ActiveOf(u)) = 1 /\ ~HasSubject(u, name)

\* C9: ClockIn of a user with no RUNNING or PAUSED session succeeds with
\* is_new = True and adds exactly one session of that user: RUNNING,
\* started_at = now, total_paused_seconds = 0, ended_at, pause_started_at and
\* override absent; the subject is created only if the user has none of
\* exactly that name.
C9_ClockInCreates ==
    \A u \in Users, name \in SubjectNames, goal \in ClockInGoals :
        ActiveOf(u) = {} =>
            LET r == clock_in(u, name, goal)
                n == Len(sessions) + 1
            IN  /\ r.raised = ""
                /\ r.is_new = TRUE
                /\ r.ret = n
                /\ Len(r.sessions) = n
                /\ SubSeq(r.sessions, 1, n - 1) = sessions
                /\ r.sessions[n].user_id = u
                /\ r.sessions[n].status = "RUNNING"
                /\ r.sessions[n].started_at = now
                /\ r.sessions[n].total_paused_seconds = 0
                /\ r.sessions[n].ended_at = None
                /\ r.sessions[n].pause_started_at = None
                /\ r.sessions[n].effective_override_seconds = None
                /\ r.subjects = IF HasSubject(u, name)
                                THEN subjects
                                ELSE Append(subjects, [user_id |-> u, name |-> name])
                /\ r.sessions[n].subject_id \in 1..Len(r.subjects)
                /\ r.subjects[r.sessions[n].subject_id] = [user_id |-> u, name |-> name]

\* a second clock-in of a user on a subject of theirs: the new session is
\* RUNNING and shares the subject of the earlier one
C9_Witness ==
    \E i, j \in 1..Len(sessions) :
        /\ i < j
        /\ sessions[i].user_id = sessions[j].user_id
        /\ sessions[i].subject_id = sessions[j].subject_id
        /\ sessions[j].status = "RUNNING"
        /\ sessions[j].started_at = now
        /\ sessions[j].total_paused_seconds = 0

\* C10: ClockOut at now of the active session sets ended_at = now and status
\* ENDED_UNCONFIRMED; a PAUSED session first gets the seconds of
\* now - pause_started_at added to total_paused_seconds and pause_started_at
\* cleared, a RUNNING one keeps total_paused_seconds; afterwards the user has
\* no active session.
C10_ClockOut ==
    \A u \in Users, note \in Notes :
        Cardinality(ActiveOf(u)) = 1 =>
            LET sid == TheActive(u)
                s == sessions[sid]
                r == clock_out(u, note)
            IN  /\ r.raised = ""
                /\ r.ret = sid
                /\ Len(r.sessions) = Len(sessions)
                /\ r.sessions[sid].ended_at = now
                /\ r.sessions[sid].status = "ENDED_UNCONFIRMED"
                /\ IF s.status = "PAUSED"
                   THEN /\ r.sessions[sid].total_paused_seconds
                               = s.total_paused_seconds
                                     + Seconds(now - s.pause_started_at)
                        /\ r.sessions[sid].pause_started_at = None
                   ELSE r.sessions[sid].total_paused_seconds = s.total_paused_seconds
                /\ \A i \in 1..Len(r.sessions) :
                       r.sessions[i].user_id = u =>
                           r.sessions[i].status \notin {"RUNNING", "PAUSED"}

\* a session clocked out at this instant with a second or more of pause accrued
C10_Witness ==
    \E i \in 1..Len(sessions) :
        /\ sessions[i].status = "ENDED_UNCONFIRMED"
        /\ sessions[i].ended_at = now
        /\ sessions[i].pause_started_at = None
        /\ sessions[i].total_paused_seconds >= 1

\* C11: Pause succeeds exactly when the user's active session exists and is
\* RUNNING; it then sets status PAUSED and pause_started_at = now and leaves
\* every other field and every other session as it was.  On a PAUSED session
\* Pause is declined and pause_started_at is not reset.
C11_Pause ==
    \A u \in Users :
        LET p == pause_session(u)
            running == {i \in ActiveOf(u) : sessions[i].status = "RUNNING"}
        IN  /\ p.raised = ""
            /\ (p.ret # NoSession) <=> (running # {})
            /\ p.ret # NoSession =>
                   /\ p.ret \in running
                   /\ p.sessions =
                          [sessions EXCEPT ![p.ret] =
                              [@ EXCEPT !.status = "PAUSED", !.pause_started_at = now]]
            /\ \A i \in ActiveOf(u) :
                   sessions[i].status = "PAUSED" =>
                       /\ p.ret = NoSession
                       /\ p.sessions[i].pause_started_at = sessions[i].pause_started_at

\* a session paused at an earlier instant: a second Pause would move the start
C11_Witness ==
    \E i \in 1..Len(sessions) :
        /\ sessions[i].status = "PAUSED"
        /\ sessions[i].pause_started_at # None
        /\ sessions[i].pause_started_at < now

\* C12: Reopen is declined and leaves every session as it was whenever the
\* user has a RUNNING or PAUSED session, be it another session or the one
\* to reopen.
C12_ReopenWhileActive ==
    \A u \in Users, sid \in SessionIds :
        ActiveOf(u) # {} =>
            /\ reopen_session(sid, u).ret = NoSession
            /\ reopen_session(sid, u).raised = ""
            /\ reopen_session(sid, u).sessions = sessions

\* a user with an active session beside an ended session of theirs
C12_Witness ==
    \E u \in Users :
        /\ ActiveOf(u) # {}
        /\ \E i \in SessionsOf(u) : sessions[i].status \in Ended

\* C13: Reopen of an owned session of a user with no active session succeeds:
\* status RUNNING, ended_at and effective_override_seconds cleared,
\* started_at and total_paused_seconds as before.
C13_Reopen ==
    \A u \in Users :
        ActiveOf(u) = {} =>
            \A sid \in SessionsOf(u) :
                LET r == reopen_session(sid, u)
                IN  /\ r.raised = ""
                    /\ r.ret = sid
                    /\ r.sessions[sid].status = "RUNNING"
                    /\ r.sessions[sid].ended_at = None
                    /\ r.sessions[sid].effective_override_seconds = None
                    /\ r.sessions[sid].started_at = sessions[sid].started_at
                    /\ r.sessions[sid].total_paused_seconds
                           = sessions[sid].total_paused_seconds
                    /\ \A j \in 1..Len(sessions) :
                           j # sid => r.sessions[j] = sessions[j]

\* an ended session with an override and completed pauses, no session active
C13_Witness ==
    \E i \in 1..Len(sessions) :
        /\ ActiveOf(sessions[i].user_id) = {}
        /\ sessions[i].status \in Ended
        /\ sessions[i].ended_at # None
        /\ sessions[i].effective_override_seconds # None
        /\ sessions[i].total_paused_seconds >= 1

\* the results of the calls of user u that take no session id
ActiveCalls(u) ==
    {clock_out(u, note) : note \in Notes} \cup {pause_session(u), resume_session(u)}

\* the results of the calls of user u on session id sid, Reopen aside
KeyedCalls(sid, u) ==
    {adjust_effective_time(sid, u, text) : text \in AdjustTexts}
        \cup {update_session_goal(sid, u, goal) : goal \in GoalTexts}
        \cup {confirm_session(sid, u), get_session_by_id(sid, u)}

ClockInCalls(u) ==
    {clock_in(u, name, goal) : name \in SubjectNames, goal \in ClockInGoals}

\* C14: once effective_override_seconds of a session is set, only a
\* successful Reopen of that session makes it absent: ClockOut, Pause,
\* Resume, Confirm, UpdateGoal (and ClockIn) leave its value as it is,
\* AdjustEffectiveTime leaves it set, and a Reopen after which it is absent
\* is a successful Reopen of that very session.
C14_OverridePersists ==
    \A i \in 1..Len(sessions) :
        sessions[i].effective_override_seconds # None =>
            \A u \in Users :
                /\ \A r \in ActiveCalls(u) \cup ClockInCalls(u) :
                       r.sessions[i].effective_override_seconds
                           = sessions[i].effective_override_seconds
                /\ \A sid \in SessionIds :
                       /\ confirm_session(sid, u).sessions[i].effective_override_seconds
                              = sessions[i].effective_override_seconds
                       /\ \A goal \in GoalTexts :
                              update_session_goal(sid, u, goal).sessions[i]
                                  .effective_override_seconds
                                  = sessions[i].effective_override_seconds
                       /\ \A text \in AdjustTexts :
                              adjust_effective_time(sid, u, text).sessions[i]
                                  .effective_override_seconds # None
                       /\ reopen_session(sid, u).sessions[i]
                              .effective_override_seconds = None
                          => sid = i /\ reopen_session(sid, u).ret = i

\* a session whose override has outlived a clock-out and a confirm
C14_Witness ==
    \E i \in 1..Len(sessions) :
        /\ sessions[i].effective_override_seconds # None
        /\ sessions[i].status = "ENDED_CONFIRMED"
        /\ sessions[i].ended_at # None

\* C15: calculate_effective_time returns the override whenever it is set, in
\* every status and at every now; without an override it returns
\* max(0, seconds from started_at to ended_at (to now if absent)
\*         - total_paused_seconds
\*         - seconds from pause_started_at to now if PAUSED with the start set).
C15_EffectiveTime ==
    \A i \in 1..Len(sessions) : \A n \in now..Horizon :
        LET s == sessions[i]
            end == IF s.ended_at # None THEN s.ended_at ELSE n
            open == IF s.status = "PAUSED" /\ s.pause_started_at # None
                    THEN Seconds(n - s.pause_started_at)
                    ELSE 0
            computed == Seconds(end - s.started_at) - s.total_paused_seconds - open
        IN  calculate_effective_time(s, n) =
                IF s.effective_override_seconds # None
                THEN s.effective_override_seconds
                ELSE IF computed > 0 THEN computed ELSE 0

\* a RUNNING session under an override that differs from its computed time
C15_Witness ==
    \E i \in 1..Len(sessions) :
        /\ sessions[i].status = "RUNNING"
        /\ sessions[i].effective_override_seconds # None
        /\ sessions[i].effective_override_seconds
               # Seconds(now - sessions[i].started_at) - sessions[i].total_paused_seconds

\* C16: a declined ClockOut, Pause, Resume, AdjustEffectiveTime, Confirm,
\* Reopen or UpdateGoal (it returns None) leaves the users, the subjects and
\* every session exactly as before the call.
C16_DeclinedNoEffect ==
    \A u \in Users :
        \A r \in ActiveCalls(u)
                 \cup UNION {KeyedCalls(sid, u) \cup {reopen_session(sid, u)} :
                                sid \in SessionIds} :
            (r.raised = "" /\ r.ret = NoSession) =>
                /\ r.sessions = sessions
                /\ r.subjects = subjects
                /\ r.users = users

\* a PAUSED session under an override: Pause, an unparseable adjustment and
\* Reopen are all declined here
C16_Witness ==
    \E i \in 1..Len(sessions) :
        /\ sessions[i].status = "PAUSED"
        /\ sessions[i].effective_override_seconds # None
        /\ pause_session(sessions[i].user_id).ret = NoSession
        /\ reopen_session(i, sessions[i].user_id).ret = NoSession
        /\ \E text \in AdjustTexts :
               /\ adjust_effective_time(i, sessions[i].user_id, text).ret = NoSession
               /\ adjust_effective_time(i, sessions[i].user_id, text).raised = ""

\* C17: no call made with user id a changes or returns a session of another
\* user b: AdjustEffectiveTime, Confirm, Reopen, UpdateGoal and GetSessionById
\* on b's session id are declined, and ClockIn, ClockOut, Pause and Resume of
\* a leave every session of b as it was.
C17_OwnerIsolation ==
    \A a \in Users, b \in Users :
        a # b =>
            \A i \in SessionsOf(b) :
                /\ \A r \in KeyedCalls(i, a) \cup {reopen_session(i, a)} :
                       /\ r.raised = ""
                       /\ r.ret = NoSession
                       /\ r.sessions = sessions
                /\ \A r \in ActiveCalls(a) \cup ClockInCalls(a)
                            \cup UNION {KeyedCalls(sid, a) \cup {reopen_session(sid, a)} :
                                           sid \in SessionIds} :
                       /\ r.ret # i
                       /\ r.sessions[i] = sessions[i]

\* two users with a session each, one of them ended and its owner's peer idle
C17_Witness ==
    \E i, j \in 1..Len(sessions) :
        /\ sessions[i].user_id # sessions[j].user_id
        /\ sessions[j].status = "ENDED_UNCONFIRMED"
        /\ ActiveOf(sessions[i].user_id) = {}

\* C18: Confirm of an owned session sets status ENDED_CONFIRMED whatever the
\* status before and writes nothing else; on a session that is already
\* ENDED_CONFIRMED it changes nothing, so confirming twice is confirming once.
C18_ConfirmIdempotent ==
    \A u \in Users : \A sid \in SessionsOf(u) :
        LET r == confirm_session(sid, u)
        IN  /\ r.raised = ""
            /\ r.ret = sid
            /\ r.sessions = [sessions EXCEPT ![sid].status = "ENDED_CONFIRMED"]
            /\ sessions[sid].status = "ENDED_CONFIRMED" => r.sessions = sessions

\* a session confirmed while PAUSED
C18_Witness ==
    \E i \in 1..Len(sessions) :
        /\ sessions[i].status = "ENDED_CONFIRMED"
        /\ sessions[i].ended_at = None
        /\ sessions[i].pause_started_at # None

\* C19: AdjustEffectiveTime of an owned session with a duration text that
\* parse_duration accepts sets effective_override_seconds to the parsed
\* value, in every status, and changes no other field.
C19_AdjustSetsOverride ==
    \A u \in Users : \A sid \in SessionsOf(u) : \A text \in AdjustTexts :
        parse_duration(text).ok =>
            LET r == adjust_effective_time(sid, u, text)
            IN  /\ r.raised = ""
                /\ r.ret = sid
                /\ r.sessions =
                       [sessions EXCEPT ![sid].effective_override_seconds =
                                            parse_duration(text).value]

\* C20: every session has total_paused_seconds >= 0 and
\* effective_override_seconds absent or >= 0, whatever duration text is
\* submitted to AdjustEffectiveTime, texts with a leading minus included.
C20_NonNegative ==
    /\ \A i \in 1..Len(sessions) :
           /\ sessions[i].total_paused_seconds >= 0
           /\ \/ sessions[i].effective_override_seconds = None
              \/ sessions[i].effective_override_seconds >= 0
    /\ \A u \in Users, sid \in SessionIds, text \in AdjustTexts :
           LET r == adjust_effective_time(sid, u, text)
           IN  \A i \in 1..Len(sessions) :
                   \/ r.sessions[i].effective_override_seconds = None
                   \/ r.sessions[i].effective_override_seconds >= 0

\* a session with an override on which a text that parses to a negative
\* number of seconds is refused by the store
C20_Witness ==
    \E i \in 1..Len(sessions) : \E text \in AdjustTexts :
        /\ sessions[i].effective_override_seconds # None
        /\ parse_duration(text).ok
        /\ parse_duration(text).value < 0
        /\ adjust_effective_time(i, sessions[i].user_id, text).raised = "IntegrityError"

\* the call of parse_duration on text has returned seconds
Parsed(text, seconds) ==
    /\ calc.fn = "parse_duration" /\ calc.pc = "return"
    /\ calc.text = text /\ calc.seconds = seconds

\* C21: whenever parse_duration returns, in any of its three grammars, the
\* value is a non-negative integer.
C21_ParseNonNegative ==
    (calc.fn = "parse_duration" /\ calc.pc = "return") => calc.seconds >= 0

\* C30: the canonical forms agree: parse_duration of "1h 20m", of "1:20" and
\* of "80" each return 4800, format_duration(4800) returns "1h 20m", and
\* parse_duration("") fails.
C30_CanonicalForms ==
    /\ (/\ calc.fn = "parse_duration" /\ calc.pc # "call"
        /\ calc.text \in { <<"1", "h", " ", "2", "0", "m">>,
                           <<"1", ":", "2", "0">>,
                           <<"8", "0">> })
           => calc.pc = "return" /\ calc.seconds = 4800
    /\ (calc.fn = "format_duration" /\ calc.pc # "call" /\ calc.seconds = 4800)
           => calc.pc = "return" /\ calc.text = <<"1", "h", " ", "2", "0", "m">>
    /\ (calc.fn = "parse_duration" /\ calc.pc # "call" /\ calc.text = <<>>)
           => calc.pc = "ValueError"

\* the plain number of minutes has been parsed
C30_Witness == Parsed(<<"8", "0">>, 4800)

\* C22: a Reopen declined because the user has another active session and a
\* Reopen declined because the session is not found or not owned yield
\* different results.
C22_ReopenDistinguishes ==
    \A u \in Users : \A missing \in 1..(MaxSessions + 1) : \A ended \in SessionsOf(u) :
        (/\ missing \notin SessionsOf(u)
         /\ sessions[ended].status \in Ended
         /\ ActiveOf(u) # {})
        => <<reopen_session(missing, u).ret, reopen_session(missing, u).raised>>
               # <<reopen_session(ended, u).ret, reopen_session(ended, u).raised>>

-----------------------------------------------------------------------------
(* Properties of the weekly allocations *)

\* the Mondays the clock of the model can fall into, and the one after
WeekStarts == {0, 7, 14}

\* the allocations of user u for the subject of that name and that week
AllocationsOf(u, name, week_start) ==
    {k \in 1..Len(allocations) :
        /\ allocations[k].user_id = u
        /\ allocations[k].week_start_date = week_start
        /\ allocations[k].subject_id \in 1..Len(subjects)
        /\ subjects[allocations[k].subject_id] = [user_id |-> u, name |-> name]}

\* C23: SetAllocation with negative hours is rejected with no user, subject
\* or allocation created or changed, and no allocation ever has negative
\* minutes_allocated.
C23_NegativeHoursRejected ==
    /\ \A k \in 1..Len(allocations) : allocations[k].minutes_allocated >= 0
    /\ \A u \in Users, name \in SubjectNames, hours \in AllocHours :
           hours.num < 0 =>
               LET r == handle_alloc_set(u, name, hours)
               IN  /\ r.raised = ""
                   /\ r.ret = NoAllocation
                   /\ r.users = users
                   /\ r.subjects = subjects
                   /\ r.allocations = allocations

\* an allocation exists in a behaviour that submits negative hours
C23_Witness ==
    /\ \E k \in 1..Len(allocations) : allocations[k].minutes_allocated > 0
    /\ \E hours \in scope.hours : hours.num < 0

\* C24: there is at most one allocation per (user, subject, week start);
\* SetAllocation leaves exactly one for its key, holding the truncated
\* hours * 60, updating the existing row if there is one and adding a row
\* only if there is none; the other rows are as before.
C24_Upsert ==
    /\ \A k1, k2 \in 1..Len(allocations) :
           (/\ allocations[k1].user_id = allocations[k2].user_id
            /\ allocations[k1].subject_id = allocations[k2].subject_id
            /\ allocations[k1].week_start_date = allocations[k2].week_start_date)
           => k1 = k2
    /\ \A u \in Users, name \in SubjectNames, hours \in AllocHours :
           hours.num >= 0 =>
               LET r == handle_alloc_set(u, name, hours)
                   week == get_week_start(now)
                   before == AllocationsOf(u, name, week)
                   after == {k \in 1..Len(r.allocations) :
                                /\ r.allocations[k].user_id = u
                                /\ r.allocations[k].week_start_date = week
                                /\ r.subjects[r.allocations[k].subject_id]
                                       = [user_id |-> u, name |-> name]}
               IN  /\ r.raised = ""
                   /\ after = {r.ret}
                   /\ r.allocations[r.ret].minutes_allocated
                          = TruncDiv(hours.num * 60, hours.den)
                   /\ Len(r.allocations)
                          = Len(allocations) + (IF before = {} THEN 1 ELSE 0)
                   /\ before # {} => before = {r.ret}
                   /\ \A k \in 1..Len(allocations) :
                          k # r.ret => r.allocations[k] = allocations[k]

\* an allocation that a later SetAllocation has updated
C24_Witness ==
    \E k \in 1..Len(allocations) :
        allocations[k].updated_at > allocations[k].created_at

\* the sessions the spec counts for a subject and week: those of the user
\* and subject that are ENDED_CONFIRMED and started within the seven days
\* from the week start
CountedIn(u, subject_id, week_start) ==
    {i \in SessionsOf(u) :
        /\ sessions[i].subject_id = subject_id
        /\ sessions[i].status = "ENDED_CONFIRMED"
        /\ NaiveInstant(week_start) <= sessions[i].started_at
        /\ sessions[i].started_at < NaiveInstant(week_start) + Week}

\* the sum of the effective seconds, at instant t, of the sessions ids
RECURSIVE EffectiveTotal(_, _)
EffectiveTotal(ids, t) ==
    IF ids = {} THEN 0
    ELSE LET i == CHOOSE i \in ids : TRUE
         IN  calculate_effective_time(sessions[i], t) + EffectiveTotal(ids \ {i}, t)

\* the sum of the seconds the aggregator adds for the sessions ids
RECURSIVE SpentTotal(_)
SpentTotal(ids) ==
    IF ids = {} THEN 0
    ELSE LET i == CHOOSE i \in ids : TRUE
         IN  SessionSpent(sessions[i]) + SpentTotal(ids \ {i})

\* the instants a query may be made at: now and the next clock readings
QueryTimes == {now + k * scope.step : k \in 0..2}

\* C25: each allocation GetAllocationsForWeek returns carries
\* floor(S / 60) minutes spent, S being the sum of the effective seconds of
\* exactly the ENDED_CONFIRMED sessions of that user and subject started
\* within the week; the floor is taken once, of the total.
C25_SpentMinutes ==
    \A u \in Users, w \in WeekStarts :
        \A list \in get_weekly_allocations(u, w) : \A n \in DOMAIN list :
            list[n].minutes_spent =
                EffectiveTotal(CountedIn(u, allocations[list[n].allocation].subject_id, w),
                               now) \div 60

\* C26: for every ENDED_CONFIRMED session, the seconds the aggregator adds
\* equal calculate_effective_time(session, now) at every now, also when the
\* session was confirmed while RUNNING or PAUSED (ended_at absent).
C26_AggregatorAgrees ==
    \A i \in 1..Len(sessions) :
        sessions[i].status = "ENDED_CONFIRMED" =>
            \A t \in QueryTimes :
                SessionSpent(sessions[i]) = calculate_effective_time(sessions[i], t)

\* C27: a confirmed session is counted in exactly one week, the one whose
\* seven days hold its started_at, wherever its ended_at lies: each
\* allocation of its subject carries the floored total of the sessions
\* started within that allocation's week, the whole of each.
C27_StartWeekOnly ==
    \A u \in Users : \A i \in SessionsOf(u) :
        sessions[i].status = "ENDED_CONFIRMED" =>
            /\ Cardinality({w \in WeekStarts :
                               i \in CountedIn(u, sessions[i].subject_id, w)}) = 1
            /\ \A w \in WeekStarts :
                   \A list \in get_weekly_allocations(u, w) : \A n \in DOMAIN list :
                       allocations[list[n].allocation].subject_id = sessions[i].subject_id
                       => list[n].minutes_spent =
                              SpentTotal(CountedIn(u, sessions[i].subject_id, w)) \div 60

\* a confirmed session that ended in the week after the one it started in,
\* its subject holding an allocation for that later week
C27_Witness ==
    \E i \in 1..Len(sessions) : \E w \in WeekStarts : \E k \in 1..Len(allocations) :
        /\ sessions[i].status = "ENDED_CONFIRMED"
        /\ i \in CountedIn(sessions[i].user_id, sessions[i].subject_id, w)
        /\ sessions[i].ended_at # None
        /\ sessions[i].ended_at >= NaiveInstant(w + 7)
        /\ SessionSpent(sessions[i]) >= 60
        /\ allocations[k].user_id = sessions[i].user_id
        /\ allocations[k].subject_id = sessions[i].subject_id
        /\ allocations[k].week_start_date = w + 7

\* C28: a confirmed session is counted in the spend of week W exactly when
\* get_week_start of its started_at is W.
C28_WeekOfStart ==
    \A u \in Users : \A i \in SessionsOf(u) :
        sessions[i].status = "ENDED_CONFIRMED" =>
            \A w \in WeekStarts :
                (i \in WeekSessions(u, sessions[i].subject_id, w))
                    <=> (get_week_start(sessions[i].started_at) = w)

\* C29: GetSubjectAllocation returns None exactly when the user has no
\* subject of that name or no allocation for it in that week; otherwise it
\* returns the allocation and the minutes spent that GetAllocationsForWeek
\* returns for that subject.
C29_SubjectAllocation ==
    \A u \in Users, name \in SubjectNames, w \in WeekStarts :
        LET r == get_subject_allocation(u, name, w)
        IN  /\ (r.allocation = NoAllocation) <=> (AllocationsOf(u, name, w) = {})
            /\ r.allocation # NoAllocation =>
                   /\ r.allocation \in AllocationsOf(u, name, w)
                   /\ \A list \in get_weekly_allocations(u, w) :
                          \E n \in DOMAIN list :
                              /\ list[n].allocation = r.allocation
                              /\ list[n].minutes_spent = r.minutes_spent

\* a subject with an allocation, a confirmed session that counts seconds
\* for it and a session with seconds that is ended but not confirmed
C29_Witness ==
    \E u \in Users, name \in SubjectNames, w \in WeekStarts :
        LET r == get_subject_allocation(u, name, w)
        IN  /\ r.allocation # NoAllocation
            /\ \E i, j \in SessionsOf(u) :
                   /\ i \in CountedIn(u, allocations[r.allocation].subject_id, w)
                   /\ SessionSpent(sessions[i]) > 0
                   /\ sessions[j].status = "ENDED_UNCONFIRMED"
                   /\ sessions[j].subject_id = sessions[i].subject_id
                   /\ SessionSpent(sessions[j]) > 0

-----------------------------------------------------------------------------
(* Further properties of parse_duration *)

\* the text of the finished call of parse_duration, stripped and lowered
CalcText == LowerStr(Strip(calc.text))

\* the two sides of the colon of a text with exactly one colon are integers
IsHMM(s) ==
    /\ Cardinality(ColonPositions(s)) = 1
    /\ \A c \in ColonPositions(s) :
           IntParse(SubSeq(s, 1, c - 1)).ok /\ IntParse(SubSeq(s, c + 1, Len(s))).ok

\* C31: parse_duration tries H:MM, then unit tokens, then plain minutes: a
\* text with exactly one colon and integers on both sides yields
\* hours*3600 + minutes*60; a text with a colon whose parts are not both
\* integers is given to the unit tokens (and, no token found, to the plain
\* number, which a text with a colon never is); the call fails exactly when
\* none of the three yields a value.
C31_GrammarOrder ==
    (calc.fn = "parse_duration" /\ calc.pc # "call") =>
        LET s == CalcText
            tokens == FindAll(s, 1)
            plain == FloatParse(s)
        IN  /\ IsHMM(s) =>
                \A c \in ColonPositions(s) :
                    /\ calc.pc = "return"
                    /\ calc.seconds = IntParse(SubSeq(s, 1, c - 1)).value * 3600
                                      + IntParse(SubSeq(s, c + 1, Len(s))).value * 60
            /\ (ColonPositions(s) # {} /\ ~IsHMM(s)) =>
                /\ ~plain.ok
                /\ IF tokens.count > 0
                   THEN calc.pc = "return" /\ calc.seconds = tokens.total
                   ELSE calc.pc = "ValueError"
            /\ (ColonPositions(s) = {} /\ tokens.count > 0) =>
                calc.pc = "return" /\ calc.seconds = tokens.total
            /\ (ColonPositions(s) = {} /\ tokens.count = 0 /\ plain.ok) =>
                calc.pc = "return"
                    /\ calc.seconds = TruncDiv(plain.num * 60, plain.den)
            /\ calc.pc = "ValueError"
                   <=> (~IsHMM(s) /\ tokens.count = 0 /\ ~plain.ok)

\* "1:30m" is not H:MM (30m is no integer) and has been read as the token 30m
C31_Witness == Parsed(<<"1", ":", "3", "0", "m">>, 1800)

-----------------------------------------------------------------------------
(* Properties of whole behaviours of the lifecycle *)

\* the step that may take the status of a session from a to b
StatusEdge(a, b) ==
    \/ a = "RUNNING" /\ b = "PAUSED" /\ Pause
    \/ a = "PAUSED" /\ b = "RUNNING" /\ Resume
    \/ a \in {"RUNNING", "PAUSED"} /\ b = "ENDED_UNCONFIRMED" /\ ClockOut
    \/ b = "ENDED_CONFIRMED" /\ Confirm
    \/ a \in Ended /\ b = "RUNNING" /\ Reopen

\* every status is one of the four values
StatusesKnown == \A i \in 1..Len(sessions) : sessions[i].status \in Statuses

\* C32: status changes only along the edges of the lifecycle, each by its
\* operation: a new session is RUNNING and made by ClockIn; RUNNING to
\* PAUSED by Pause; PAUSED to RUNNING by Resume; RUNNING or PAUSED to
\* ENDED_UNCONFIRMED by ClockOut; any status to ENDED_CONFIRMED by Confirm;
\* an ended status to RUNNING by Reopen; and status is always one of the
\* four values.
C32_StatusEdges ==
    /\ []StatusesKnown
    /\ [][/\ \A i \in 1..Len(sessions') :
                 IF i > Len(sessions)
                 THEN sessions'[i].status = "RUNNING" /\ ClockIn
                 ELSE sessions'[i].status # sessions[i].status
                          => StatusEdge(sessions[i].status, sessions'[i].status)
          /\ Len(sessions') >= Len(sessions)]_vars

\* a session confirmed while PAUSED and reopened since: RUNNING with the
\* start of the pause still set
C32_Witness ==
    \E i \in 1..Len(sessions) :
        sessions[i].status = "RUNNING" /\ sessions[i].pause_started_at # None

\* C33: no step deletes a session or changes the owner, the subject or
\* started_at of a session: the session ids only grow and those three
\* fields keep the values ClockIn gave them.
C33_SessionsKept ==
    [][/\ Len(sessions') >= Len(sessions)
       /\ \A i \in 1..Len(sessions) :
              /\ sessions'[i].user_id = sessions[i].user_id
              /\ sessions'[i].subject_id = sessions[i].subject_id
              /\ sessions'[i].started_at = sessions[i].started_at]_vars

\* a session started earlier, paused and resumed since, that is running on
C33_Witness ==
    \E i \in 1..Len(sessions) :
        /\ sessions[i].started_at < now
        /\ sessions[i].status = "RUNNING"
        /\ sessions[i].total_paused_seconds >= 1
        /\ sessions[i].goal = "g"

-----------------------------------------------------------------------------
(* Properties of interleaved requests *)

\* a Reopen has read the active session of its user and has not written yet
ReopenInFlight == \E p \in Procs : req[p].pc = "reopen"

\* C34: when a Reopen is interleaved with a ClockIn of the same user (each
\* reads the active session of the user, then writes), the user does not
\* end up with two sessions RUNNING or PAUSED: no step taken while a Reopen
\* is in flight brings a user from at most one active session to two.
C34_ReopenRaceAtMostOneActive ==
    [][(ReopenInFlight /\ \A u \in Users : Cardinality(ActiveOf(u)) <= 1)
           => \A u \in Users : Cardinality(ActiveOf(u)') <= 1]_vars

\* C35: in every reachable state, the states reached by interleaved ClockIn
\* requests included, ClockOut, Pause, Resume, ClockIn and Reopen of a user
\* complete with their success or their declined outcome, never with an
\* error of the active-session lookup; a user with an active session can
\* clock out.
C35_LookupNeverFails ==
    \A u \in Users :
        /\ \A r \in ActiveCalls(u) \cup ClockInCalls(u) : r.raised = ""
        /\ \A sid \in SessionIds : reopen_session(sid, u).raised = ""
        /\ ActiveOf(u) # {} =>
               \A note \in Notes : clock_out(u, note).ret # NoSession

-----------------------------------------------------------------------------
(* Properties of the effective time across operations *)

\* C36: Pause, Resume and ClockOut performed at instant t leave the
\* effective time at t as it was: for a session with no override,
\* calculate_effective_time of the session after the operation, at t, equals
\* that of the session before the operation, at t.
C36_OperationKeepsEffective ==
    \A u \in Users :
        \A r \in ActiveCalls(u) :
            (r.ret # NoSession /\ sessions[r.ret].effective_override_seconds = None)
            => calculate_effective_time(r.sessions[r.ret], now)
                   = calculate_effective_time(sessions[r.ret], now)

\* a session paused for a second or more, which Resume and ClockOut accept
C36_Witness ==
    \E u \in Users :
        /\ ActiveOf(u) # {}
        /\ LET s == sessions[TheActive(u)]
           IN  /\ s.status = "PAUSED"
               /\ s.effective_override_seconds = None
               /\ s.pause_started_at # None
               /\ Seconds(now - s.pause_started_at) >= 1
        /\ resume_session(u).ret = TheActive(u)
        /\ \A note \in Notes : clock_out(u, note).ret = TheActive(u)

\* the calls that take session sid of user u out of status PAUSED
LeavePausedCalls(sid, u) ==
    {clock_out(u, note) : note \in Notes}
        \cup {resume_session(u), confirm_session(sid, u)}

\* C37: paused time is never lost: the step that takes a session out of
\* status PAUSED (Resume, ClockOut or Confirm) adds the seconds since the
\* Pause to total_paused_seconds, and the effective time (no override) does
\* not grow by it.
C37_PausedTimeKept ==
    \A u \in Users : \A sid \in ActiveOf(u) :
        LET s == sessions[sid]
        IN  (s.status = "PAUSED" /\ s.pause_started_at # None) =>
                \A r \in LeavePausedCalls(sid, u) :
                    r.sessions[sid].status # "PAUSED" =>
                        /\ r.sessions[sid].total_paused_seconds
                               = s.total_paused_seconds
                                     + Seconds(now - s.pause_started_at)
                        /\ s.effective_override_seconds = None
                               => calculate_effective_time(r.sessions[sid], now)
                                      = calculate_effective_time(s, now)

\* an instant on a whole second
WholeSecond(t) == t % TicksPerSecond = 0

\* C38: while a session is PAUSED and has no override, its effective time
\* is the same at every now from pause_started_at on, the clock giving whole
\* seconds: the time of a pause adds nothing.
C38_PausedConstant ==
    \A i \in 1..Len(sessions) :
        LET s == sessions[i]
        IN  (/\ s.status = "PAUSED"
             /\ s.effective_override_seconds = None
             /\ WholeSecond(s.started_at)
             /\ s.pause_started_at # None
             /\ WholeSecond(s.pause_started_at))
            => \A n1, n2 \in s.pause_started_at..Horizon :
                   (WholeSecond(n1) /\ WholeSecond(n2))
                   => calculate_effective_time(s, n1) = calculate_effective_time(s, n2)

\* a session paused on a whole second after a second or more of running
C38_Witness ==
    \E i \in 1..Len(sessions) :
        /\ sessions[i].status = "PAUSED"
        /\ sessions[i].effective_override_seconds = None
        /\ WholeSecond(sessions[i].started_at)
        /\ sessions[i].pause_started_at # None
        /\ WholeSecond(sessions[i].pause_started_at)
        /\ sessions[i].pause_started_at + TicksPerSecond <= Horizon
        /\ calculate_effective_time(sessions[i], sessions[i].pause_started_at) >= 1

\* the paused seconds of a session at now, the open pause included, are
\* within the seconds from its start to its end (to now if not ended)
PausedWithinSpan(s) ==
    LET end == IF s.ended_at # None THEN s.ended_at ELSE now
        open == IF s.status = "PAUSED" /\ s.pause_started_at # None
                THEN Seconds(now - s.pause_started_at)
                ELSE 0
    IN  /\ s.started_at <= end
        /\ s.total_paused_seconds + open <= Seconds(end - s.started_at)
        /\ s.effective_override_seconds = None
               => calculate_effective_time(s, now)
                      = Seconds(end - s.started_at) - (s.total_paused_seconds + open)

\* C39: the clock never going back, in every reachable state
\* total_paused_seconds plus the open pause is at most the time from
\* started_at to ended_at (to now if absent), so the clamp at 0 of
\* calculate_effective_time never applies, and total_paused_seconds never
\* decreases.
C39_PausedWithinSpan ==
    /\ [](\A i \in 1..Len(sessions) : PausedWithinSpan(sessions[i]))
    /\ [][\A i \in 1..Len(sessions) :
              sessions'[i].total_paused_seconds >= sessions[i].total_paused_seconds]_vars

\* a session in its second pause, a second or more of pauses completed
C39_Witness ==
    \E i \in 1..Len(sessions) :
        /\ sessions[i].status = "PAUSED"
        /\ sessions[i].pause_started_at # None
        /\ sessions[i].total_paused_seconds >= 1
        /\ sessions[i].effective_override_seconds = None

\* C40: reopening an ended session does not add the time it spent ended to
\* its effective time: for a session with no override clocked out earlier,
\* the effective time at now right after Reopen equals the effective time
\* it had while ended.
C40_ReopenKeepsEffective ==
    \A u \in Users : \A sid \in SessionsOf(u) :
        LET s == sessions[sid]
            r == reopen_session(sid, u)
        IN  (/\ s.status \in Ended
             /\ s.ended_at # None
             /\ s.ended_at < now
             /\ s.effective_override_seconds = None
             /\ r.ret = sid)
            => calculate_effective_time(r.sessions[sid], now)
                   = calculate_effective_time(s, now)

====
